---- MODULE Spec2Model ----
(***************************************************************************)
(* A model of trello-rs' interactive card editing (edit_card in            *)
(* src/subcommands.rs) and of Client::get_trello_url                        *)
(* (src/trello/client.rs).                                                  *)
(*                                                                         *)
(* edit_card is one thread of control that runs next to an external editor *)
(* process.  The editor saves the scratch file and exits whenever it       *)
(* likes, so every step of a poll iteration that touches the file or the   *)
(* child process is an action of its own: Read (sleep, reopen, read),      *)
(* Process (trim, parse, decide, copy), Update (the Card::update call) and *)
(* TryWait (the exit check).                                               *)
(***************************************************************************)
EXTENDS Integers, Sequences, FiniteSets, TLC

\* ---------------------------------------------------------------- bounds
MaxUpdates == 3   \* Card::update calls made in one run of edit_card
MaxSpawns == 2    \* editor processes spawned in one run of edit_card
MaxBad == 2       \* consecutive unparsable polls that are counted
MaxLate == 2      \* reads counted after the editor has exited
MaxParams == 2    \* caller-supplied query parameters of get_trello_url

\* ----------------------------------------------------- scratch documents
Names == {"a", "b"}
Descs == {"x", "y"}

\* A text of the scratch file: either a well-formed card document with
\* `trail` newlines behind it, or something the codec rejects.
Texts ==
    {t \in [ok : BOOLEAN, name : Names, desc : Descs, trail : 0..1] :
        t.ok \/ (t.name = "a" /\ t.desc = "x")}

ParseError == [err |-> "parse"]

\* The card edit_card is called with.
Card0 == [name |-> "a", desc |-> "x"]

Newlines(k) == IF k = 0 THEN "" ELSE "\n"

\* card.render(): the document of the card, no newline behind it.
Render(card) == [ok |-> TRUE, name |-> card.name, desc |-> card.desc, trail |-> 0]

\* writeln!(file, "{}", text): the text and one newline.
WriteLn(text) == [text EXCEPT !.trail = 1]

\* str::trim_end
TrimEnd(text) == [text EXCEPT !.trail = 0]

\* str::parse::<CardContents>(): the description is everything behind the
\* heading, whitespace at the end included.
Parse(text) ==
    IF text.ok
    THEN [name |-> text.name, desc |-> text.desc \o Newlines(text.trail)]
    ELSE ParseError

\* lines 65-71: the contents of one poll
ContentsNoTrim(buf) == Parse(buf)
Contents(buf) == Parse(TrimEnd(buf))

\* lines 76-79: the update trigger
TriggerNoNone(result, new_card, contents) ==
    \/ result = "Err"
    \/ new_card.name # contents.name
    \/ new_card.desc # contents.desc
TriggerNoErr(result, new_card, contents) ==
    \/ result = "None"
    \/ new_card.name # contents.name
    \/ new_card.desc # contents.desc
TriggerNoDiff(result, new_card, contents) ==
    \/ result = "None"
    \/ result = "Err"
TriggerAlways(result, new_card, contents) == TRUE
TriggerNameOnly(result, new_card, contents) ==
    \/ result = "None"
    \/ result = "Err"
    \/ new_card.name # contents.name
Trigger(result, new_card, contents) ==
    \/ result = "None"
    \/ result = "Err"
    \/ new_card.name # contents.name
    \/ new_card.desc # contents.desc

VARIABLES
    pc,             \* where edit_card is
    file,           \* the text of the scratch file
    fileExists,     \* the scratch file is on disk
    editorRunning,  \* an editor process spawned by edit_card is running
    buf,            \* what the current poll has read
    new_card,       \* the in-memory copy (name, desc)
    result,         \* "None", "Ok" or "Err": Option<Result<Card, TrelloError>>
    updateCount,    \* Card::update calls so far
    lastCall,       \* the last Card::update call: what it carried, how it ended
    lastOk,         \* what the last successful Card::update carried
    spawns,         \* editor processes spawned so far
    prompts,        \* error prompts shown so far
    fatal,          \* the `?` that ended edit_card, if one did
    modified,       \* the editor has written a text other than the first one
    polled,         \* this editor session has read the file
    closedAtOnce,   \* the first editor exited before the first read
    triggered,      \* this poll iteration has triggered an update
    badStreak,      \* unparsable polls in a row, up to MaxBad
    lateReads,      \* reads begun after the editor exited, up to MaxLate
    afterFatal,     \* calls, prompts and spawns counted when edit_card failed
    url             \* get_trello_url: its arguments and what it returned

editVars == <<pc, file, fileExists, editorRunning, buf, new_card, result,
              updateCount, lastCall, lastOk, spawns, prompts, fatal, modified,
              polled, closedAtOnce, triggered, badStreak, lateReads, afterFatal>>
vars == <<editVars, url>>

NoCall == [name |-> "", desc |-> "", ok |-> FALSE]
NoCard == [name |-> "", desc |-> ""]
NoUrl == [state |-> "none"]

Min(a, b) == IF a < b THEN a ELSE b

InitEdit ==
    /\ pc = "idle"
    /\ file = Render(Card0)
    /\ fileExists = FALSE
    /\ editorRunning = FALSE
    /\ buf = Render(Card0)
    /\ new_card = Card0
    /\ result = "None"
    /\ updateCount = 0
    /\ lastCall = NoCall
    /\ lastOk = NoCard
    /\ spawns = 0
    /\ prompts = 0
    /\ fatal = "none"
    /\ modified = FALSE
    /\ polled = FALSE
    /\ closedAtOnce = FALSE
    /\ triggered = FALSE
    /\ badStreak = 0
    /\ lateReads = 0
    /\ afterFatal = <<0, 0, 0>>

Init ==
    /\ InitEdit
    /\ url = NoUrl

\* `?` on an Err: edit_card returns, the NamedTempFile is dropped (and the
\* file deleted); the Child is dropped too, which leaves the process alone.
Fail(why) ==
    /\ pc' = "error"
    /\ fatal' = why
    /\ fileExists' = FALSE
    /\ afterFatal' = <<updateCount, prompts, spawns>>

\* lines 38-46: the scratch file is created and filled, the card is cloned
CreateScratch ==
    /\ pc = "idle"
    /\ pc' = "spawn"
    /\ file' = WriteLn(Render(Card0))
    /\ fileExists' = TRUE
    /\ new_card' = Card0
    /\ UNCHANGED <<editorRunning, buf, result, updateCount, lastCall, lastOk,
                   spawns, prompts, fatal, modified, polled, closedAtOnce,
                   triggered, badStreak, lateReads, afterFatal, url>>

CreateScratchFail ==
    /\ pc = "idle"
    /\ Fail("tempfile")
    /\ UNCHANGED <<file, editorRunning, buf, new_card, result, updateCount,
                   lastCall, lastOk, spawns, prompts, modified, polled,
                   closedAtOnce, triggered, badStreak, lateReads, url>>

\* lines 50-53: the editor is spawned, the outcome starts as None
SpawnKeepsResult ==
    /\ pc = "spawn"
    /\ spawns < MaxSpawns
    /\ pc' = "read"
    /\ editorRunning' = TRUE
    /\ spawns' = spawns + 1
    /\ polled' = FALSE
    /\ triggered' = FALSE
    /\ badStreak' = 0
    /\ lateReads' = 0
    /\ UNCHANGED <<file, fileExists, buf, new_card, result, updateCount, lastCall,
                   lastOk, prompts, fatal, modified, closedAtOnce, afterFatal,
                   url>>
Spawn ==
    /\ pc = "spawn"
    /\ spawns < MaxSpawns
    /\ pc' = "read"
    /\ editorRunning' = TRUE
    /\ result' = "None"
    /\ spawns' = spawns + 1
    /\ polled' = FALSE
    /\ triggered' = FALSE
    /\ badStreak' = 0
    /\ lateReads' = 0
    /\ UNCHANGED <<file, fileExists, buf, new_card, updateCount, lastCall,
                   lastOk, prompts, fatal, modified, closedAtOnce, afterFatal,
                   url>>

SpawnFail ==
    /\ pc = "spawn"
    /\ Fail("spawn")
    /\ UNCHANGED <<file, editorRunning, buf, new_card, result, updateCount,
                   lastCall, lastOk, spawns, prompts, modified, polled,
                   closedAtOnce, triggered, badStreak, lateReads, url>>

\* lines 57-62: sleep, then reopen the file and read all of it
Read ==
    /\ pc = "read"
    /\ fileExists
    /\ pc' = "parse"
    /\ buf' = file
    /\ polled' = TRUE
    /\ triggered' = FALSE
    /\ lateReads' = IF editorRunning THEN lateReads ELSE Min(lateReads + 1, MaxLate)
    /\ UNCHANGED <<file, fileExists, editorRunning, new_card, result,
                   updateCount, lastCall, lastOk, spawns, prompts, fatal,
                   modified, closedAtOnce, badStreak, afterFatal, url>>

ReadFailContinues ==
    /\ pc = "read"
    /\ pc' = "read"
    /\ fatal' = "reopen"
    /\ afterFatal' = <<updateCount, prompts, spawns>>
    /\ UNCHANGED <<file, fileExists, editorRunning, buf, new_card, result,
                   updateCount, lastCall, lastOk, spawns, prompts, modified,
                   polled, closedAtOnce, triggered, badStreak, lateReads, url>>
ReadFail ==
    /\ pc = "read"
    /\ Fail("reopen")
    /\ UNCHANGED <<file, editorRunning, buf, new_card, result, updateCount,
                   lastCall, lastOk, spawns, prompts, modified, polled,
                   closedAtOnce, triggered, badStreak, lateReads, url>>

\* lines 65-83: trim and parse; on a parse error `continue`, which starts
\* the next iteration at the sleep; else decide, and on a trigger copy the
\* parsed fields into new_card
ProcessParseDefault ==
    /\ pc = "parse"
    /\ LET parsed == Contents(buf)
           contents == IF parsed = ParseError
                       THEN [name |-> "", desc |-> ""]
                       ELSE parsed IN
        IF Trigger(result, new_card, contents)
        THEN /\ updateCount < MaxUpdates
             /\ pc' = "update"
             /\ new_card' = [name |-> contents.name, desc |-> contents.desc]
             /\ triggered' = TRUE
             /\ UNCHANGED badStreak
        ELSE /\ pc' = "wait"
             /\ UNCHANGED <<new_card, triggered, badStreak>>
    /\ UNCHANGED <<file, fileExists, editorRunning, buf, result, updateCount,
                   lastCall, lastOk, spawns, prompts, fatal, modified, polled,
                   closedAtOnce, lateReads, afterFatal, url>>
ProcessChecksExit ==
    /\ pc = "parse"
    /\ LET contents == Contents(buf) IN
        IF contents = ParseError
        THEN /\ pc' = "wait"
             /\ badStreak' = Min(badStreak + 1, MaxBad)
             /\ UNCHANGED <<new_card, triggered>>
        ELSE IF Trigger(result, new_card, contents)
        THEN /\ updateCount < MaxUpdates
             /\ pc' = "update"
             /\ new_card' = [name |-> contents.name, desc |-> contents.desc]
             /\ triggered' = TRUE
             /\ UNCHANGED badStreak
        ELSE /\ pc' = "wait"
             /\ UNCHANGED <<new_card, triggered, badStreak>>
    /\ UNCHANGED <<file, fileExists, editorRunning, buf, result, updateCount,
                   lastCall, lastOk, spawns, prompts, fatal, modified, polled,
                   closedAtOnce, lateReads, afterFatal, url>>
Process ==
    /\ pc = "parse"
    /\ LET contents == Contents(buf) IN
        IF contents = ParseError
        THEN /\ pc' = "read"
             /\ badStreak' = Min(badStreak + 1, MaxBad)
             /\ UNCHANGED <<new_card, triggered>>
        ELSE IF Trigger(result, new_card, contents)
        THEN /\ updateCount < MaxUpdates
             /\ pc' = "update"
             /\ new_card' = [name |-> contents.name, desc |-> contents.desc]
             /\ triggered' = TRUE
             /\ UNCHANGED badStreak
        ELSE /\ pc' = "wait"
             /\ UNCHANGED <<new_card, triggered, badStreak>>
    /\ UNCHANGED <<file, fileExists, editorRunning, buf, result, updateCount,
                   lastCall, lastOk, spawns, prompts, fatal, modified, polled,
                   closedAtOnce, lateReads, afterFatal, url>>

\* lines 85-91: Card::update(client, &new_card), its outcome kept in result
UpdateSendsOriginal ==
    /\ pc = "update"
    /\ \E ok \in BOOLEAN :
        /\ result' = IF ok THEN "Ok" ELSE "Err"
        /\ lastCall' = [name |-> Card0.name, desc |-> Card0.desc, ok |-> ok]
        /\ lastOk' = IF ok THEN Card0 ELSE lastOk
    /\ updateCount' = updateCount + 1
    /\ pc' = "wait"
    /\ UNCHANGED <<file, fileExists, editorRunning, buf, new_card, spawns,
                   prompts, fatal, modified, polled, closedAtOnce, triggered,
                   badStreak, lateReads, afterFatal, url>>
UpdateKeepsError ==
    /\ pc = "update"
    /\ \E ok \in BOOLEAN :
        /\ result' = IF ok /\ result # "Err" THEN "Ok" ELSE "Err"
        /\ lastCall' = [name |-> new_card.name, desc |-> new_card.desc, ok |-> ok]
        /\ lastOk' = IF ok THEN new_card ELSE lastOk
    /\ updateCount' = updateCount + 1
    /\ pc' = "wait"
    /\ UNCHANGED <<file, fileExists, editorRunning, buf, new_card, spawns,
                   prompts, fatal, modified, polled, closedAtOnce, triggered,
                   badStreak, lateReads, afterFatal, url>>
Update ==
    /\ pc = "update"
    /\ \E ok \in BOOLEAN :
        /\ result' = IF ok THEN "Ok" ELSE "Err"
        /\ lastCall' = [name |-> new_card.name, desc |-> new_card.desc, ok |-> ok]
        /\ lastOk' = IF ok THEN new_card ELSE lastOk
    /\ updateCount' = updateCount + 1
    /\ pc' = "wait"
    /\ UNCHANGED <<file, fileExists, editorRunning, buf, new_card, spawns,
                   prompts, fatal, modified, polled, closedAtOnce, triggered,
                   badStreak, lateReads, afterFatal, url>>

\* lines 94-97: editor.try_wait()
TryWaitAlwaysBreaks ==
    /\ pc = "wait"
    /\ pc' = "match"
    /\ badStreak' = 0
    /\ UNCHANGED <<file, fileExists, editorRunning, buf, new_card, result,
                   updateCount, lastCall, lastOk, spawns, prompts, fatal,
                   modified, polled, closedAtOnce, triggered, lateReads,
                   afterFatal, url>>
TryWait ==
    /\ pc = "wait"
    /\ pc' = IF editorRunning THEN "read" ELSE "match"
    /\ badStreak' = 0
    /\ UNCHANGED <<file, fileExists, editorRunning, buf, new_card, result,
                   updateCount, lastCall, lastOk, spawns, prompts, fatal,
                   modified, polled, closedAtOnce, triggered, lateReads,
                   afterFatal, url>>

TryWaitFail ==
    /\ pc = "wait"
    /\ Fail("try_wait")
    /\ UNCHANGED <<file, editorRunning, buf, new_card, result, updateCount,
                   lastCall, lastOk, spawns, prompts, modified, polled,
                   closedAtOnce, triggered, badStreak, lateReads, url>>

\* lines 100-115: the outcome decides between leaving and the error prompt
MatchAlwaysDone ==
    /\ pc = "match"
    /\ pc' = "done"
    /\ fileExists' = FALSE
    /\ UNCHANGED prompts
    /\ UNCHANGED <<file, editorRunning, buf, new_card, result, updateCount,
                   lastCall, lastOk, spawns, fatal, modified, polled,
                   closedAtOnce, triggered, badStreak, lateReads, afterFatal,
                   url>>
MatchNoPrompt ==
    /\ pc = "match"
    /\ IF result = "Err"
       THEN pc' = "spawn" /\ UNCHANGED fileExists
       ELSE pc' = "done" /\ fileExists' = FALSE
    /\ UNCHANGED <<file, editorRunning, buf, new_card, result, updateCount,
                   lastCall, lastOk, spawns, prompts, fatal, modified, polled,
                   closedAtOnce, triggered, badStreak, lateReads, afterFatal,
                   url>>
Match ==
    /\ pc = "match"
    /\ IF result = "Err"
       THEN pc' = "prompt" /\ prompts' = prompts + 1 /\ UNCHANGED fileExists
       ELSE pc' = "done" /\ fileExists' = FALSE /\ UNCHANGED prompts
    /\ UNCHANGED <<file, editorRunning, buf, new_card, result, updateCount,
                   lastCall, lastOk, spawns, fatal, modified, polled,
                   closedAtOnce, triggered, badStreak, lateReads, afterFatal,
                   url>>

\* line 113: get_input returns a line, the outer loop goes round
PromptAck ==
    /\ pc = "prompt"
    /\ pc' = "spawn"
    /\ UNCHANGED <<file, fileExists, editorRunning, buf, new_card, result,
                   updateCount, lastCall, lastOk, spawns, prompts, fatal,
                   modified, polled, closedAtOnce, triggered, badStreak,
                   lateReads, afterFatal, url>>

\* line 113: get_input(...)? on a read error (end of input, interrupt)
PromptFail ==
    /\ pc = "prompt"
    /\ Fail("prompt")
    /\ UNCHANGED <<file, editorRunning, buf, new_card, result, updateCount,
                   lastCall, lastOk, spawns, prompts, modified, polled,
                   closedAtOnce, triggered, badStreak, lateReads, url>>

\* The editor process writes the file.  It can, until it exits, whatever
\* edit_card is doing, also after edit_card has returned.
EditorSave ==
    /\ editorRunning
    /\ \E text \in Texts :
        /\ file' = text
        /\ modified' = (modified \/ text # WriteLn(Render(Card0)))
    /\ fileExists' = TRUE
    /\ UNCHANGED <<pc, editorRunning, buf, new_card, result, updateCount,
                   lastCall, lastOk, spawns, prompts, fatal, polled,
                   closedAtOnce, triggered, badStreak, lateReads, afterFatal,
                   url>>

\* The editor process exits.
EditorExit ==
    /\ editorRunning
    /\ editorRunning' = FALSE
    /\ closedAtOnce' = (closedAtOnce \/ (spawns = 1 /\ ~polled))
    /\ UNCHANGED <<pc, file, fileExists, buf, new_card, result, updateCount,
                   lastCall, lastOk, spawns, prompts, fatal, modified, polled,
                   triggered, badStreak, lateReads, afterFatal, url>>

Next ==
    \/ CreateScratch
    \/ CreateScratchFail
    \/ Spawn
    \/ SpawnFail
    \/ Read
    \/ ReadFail
    \/ Process
    \/ Update
    \/ TryWait
    \/ TryWaitFail
    \/ Match
    \/ PromptAck
    \/ PromptFail
    \/ EditorSave
    \/ EditorExit

Spec == Init /\ [][Next]_vars

\* ------------------------------------------------------- get_trello_url
\* A Client (src/trello/client.rs:3-7) is [host, token, key]; a parameter
\* is a pair <<name, value>>.  A query string is kept as its sequence of
\* tokens ("key", "=", "some-key", "&", ...), a Url as its text up to the
\* query and that sequence.
Hosts == {"https://api.trello.com", "api.trello.com"}
Keys == {"some-key", "k&y"}
Tokens == {"some-token"}
Paths == {"/1/me/boards/", "/1/boards/some-id/"}
ParamNames == {"lists", "filter"}
ParamValues == {"open", "a b"}

Clients == [host : Hosts, token : Tokens, key : Keys]
Params == ParamNames \X ParamValues
ParamLists == UNION {[1..n -> Params] : n \in 0..MaxParams}

UrlError == [err |-> "url"]

\* application/x-www-form-urlencoded, as form_urlencoded::byte_serialize
\* writes the strings of this model: a space becomes +, & becomes %26.
Encode(s) ==
    CASE s = "a b" -> "a+b"
      [] s = "k&y" -> "k%26y"
      [] OTHER -> s

\* form_urlencoded::parse on one name or value: + is a space, %26 is &.
Decode(s) ==
    CASE s = "a+b" -> "a b"
      [] s = "k%26y" -> "k&y"
      [] OTHER -> s

\* Url::parse: a text with no scheme is a relative URL without a base.
HasScheme(text) == text \in {h \o p : h \in {"https://api.trello.com"}, p \in Paths}

\* url.query_pairs_mut().extend_pairs(pairs): name=value, joined by &
RECURSIVE Serialize(_)
Serialize(pairs) ==
    IF pairs = <<>>
    THEN <<>>
    ELSE <<Encode(pairs[1][1]), "=", Encode(pairs[1][2])>>
         \o (IF Len(pairs) = 1 THEN <<>> ELSE <<"&">> \o Serialize(Tail(pairs)))

\* Url::parse_with_params(input, pairs)
ParseWithParams(input, pairs) ==
    IF HasScheme(input)
    THEN [base |-> input, query |-> Serialize(pairs)]
    ELSE UrlError

\* url.query_pairs(): the pairs of a query, decoded
RECURSIVE QueryPairs(_)
QueryPairs(query) ==
    IF Len(query) < 3
    THEN <<>>
    ELSE <<<<Decode(query[1]), Decode(query[3])>>>>
         \o QueryPairs(SubSeq(query, 5, Len(query)))

RECURSIVE Join(_)
Join(tokens) == IF tokens = <<>> THEN "" ELSE tokens[1] \o Join(Tail(tokens))

\* url.to_string()
to_string(u) == u.base \o "?" \o Join(u.query)

\* src/trello/client.rs:42-49
get_trello_url_params_first(self, path, params) ==
    ParseWithParams(self.host \o path,
                    params \o <<<<"key", self.key>>, <<"token", self.token>>>>)
get_trello_url(self, path, params) ==
    LET auth_params == <<<<"key", self.key>>, <<"token", self.token>>>>
    IN  ParseWithParams(self.host \o path, auth_params \o params)

InitUrl ==
    /\ InitEdit
    /\ url \in [state : {"called"}, self : Clients, path : Paths, params : ParamLists]

\* One call of get_trello_url with the arguments drawn in InitUrl.
GetTrelloUrl ==
    /\ url.state = "called"
    /\ url' = [state |-> "returned", self |-> url.self, path |-> url.path,
               params |-> url.params,
               out |-> get_trello_url(url.self, url.path, url.params)]
    /\ UNCHANGED editVars

NextUrl == GetTrelloUrl

SpecUrl == InitUrl /\ [][NextUrl]_vars

\* ----------------------------------------------------------- properties
Counts == <<updateCount, prompts, spawns>>
Parsed(text) == Contents(text) # ParseError
SameAsCard(text) ==
    /\ Contents(text).name = new_card.name
    /\ Contents(text).desc = new_card.desc
\* a step of edit_card that leaves the parse of the current poll behind
LeavesParse == pc = "parse" /\ pc' # "parse"

\* C1: when edit_card ends normally and the final text of the scratch file
\* parses, the last successful Card::update carried the name and the
\* description of that final text.
C1_FinalContentUploaded ==
    (pc = "done" /\ Parsed(file)) =>
        (lastOk.name = Contents(file).name /\ lastOk.desc = Contents(file).desc)

\* C2 as stated: with the scratch file never modified and the first editor
\* closed before the first poll, no Card::update call is made and no prompt
\* is shown.
C2_NoUpdateWhenUntouched ==
    (~modified /\ closedAtOnce /\ spawns = 1) =>
        (updateCount = 0 /\ prompts = 0)

\* C2 amended: with the scratch file never modified and the first editor
\* closed before the first poll, that editor session makes exactly one
\* Card::update call, which carries the card's own name and description;
\* edit_card is done with no prompt shown if the call succeeded, and at the
\* prompt if it failed.
C2_OneUpdateWhenUntouched ==
    (~modified /\ closedAtOnce /\ spawns = 1) =>
        /\ pc \in {"match", "done", "prompt", "spawn"} =>
              /\ updateCount = 1
              /\ lastCall.name = Card0.name
              /\ lastCall.desc = Card0.desc
        /\ pc = "done" => (lastCall.ok /\ prompts = 0)
        /\ pc \in {"prompt", "spawn"} => (~lastCall.ok /\ prompts = 1)

C2_Witness ==
    ~modified /\ closedAtOnce /\ spawns = 1 /\ pc = "done" /\ updateCount = 1

\* C3: once the editor has exited, the poll loop is left after at most one
\* further iteration: no second read of the scratch file is begun after
\* the exit.
C3_LoopLeftAfterExit == lateReads <= 1

\* C4 as stated: after a Card::update call has failed, no poll of the same
\* editor session triggers a call for the same content.
C4_NoRetryInLoop ==
    [][~(LeavesParse /\ result = "Err" /\ pc' = "update" /\ new_card' = new_card)]_vars

\* C4 amended: a failed Card::update is retried in the poll loop: while the
\* last outcome is a failure, every poll that parses triggers a call, the
\* same content included.  Calls are made by polls only; with the failure
\* kept until the editor exits, the error is shown, the prompt is read and
\* an editor is spawned (with the outcome back to None) before the next.
C4_FailureRetriedByNextPoll ==
    [][ /\ (LeavesParse /\ result = "Err" /\ Parsed(buf)) =>
              (pc' = "update" /\ triggered')
        /\ (updateCount' # updateCount) =>
              (pc = "update" /\ triggered /\ updateCount' = updateCount + 1)
        /\ (pc = "match" /\ pc' # pc /\ result = "Err") =>
              (pc' = "prompt" /\ prompts' = prompts + 1 /\ ~editorRunning)
        /\ (pc = "prompt" /\ pc' # pc) => pc' \in {"spawn", "error"}
        /\ (pc = "spawn" /\ pc' # pc) =>
              \/ pc' = "error"
              \/ pc' = "read" /\ result' = "None" /\ spawns' = spawns + 1
      ]_vars

C4_Witness ==
    /\ pc = "update"
    /\ result = "Err"
    /\ lastCall.name = new_card.name
    /\ lastCall.desc = new_card.desc
    /\ ~lastCall.ok

\* C5: a poll that parses, finds name and description equal to the
\* in-memory copy and follows a successful Card::update makes no call.
C5_NoRepeatAfterSuccess ==
    [][(LeavesParse /\ result = "Ok" /\ Parsed(buf) /\ SameAsCard(buf)) =>
          (pc' = "wait" /\ ~triggered' /\ UNCHANGED <<updateCount, new_card, result>>)
      ]_vars

C5_Witness ==
    pc = "wait" /\ ~triggered /\ result = "Ok" /\ updateCount = 1 /\ editorRunning

\* C6: a poll that does not parse makes no Card::update call and starts
\* the next poll; the first poll that parses again and differs from the
\* in-memory copy triggers a call, and a triggered call is exactly one call.
C6_UnparsableThenOneUpdate ==
    /\ []((badStreak > 0 /\ pc \in {"read", "parse"}) => ~triggered)
    /\ [][ /\ (LeavesParse /\ ~Parsed(buf)) =>
                 (pc' = "read" /\ UNCHANGED <<updateCount, new_card, result, lastCall>>)
           /\ (LeavesParse /\ badStreak > 0 /\ Parsed(buf) /\ ~SameAsCard(buf)) =>
                 /\ pc' = "update"
                 /\ new_card'.name = Contents(buf).name
                 /\ new_card'.desc = Contents(buf).desc
           /\ (pc = "update" /\ pc' # pc) =>
                 (pc' = "wait" /\ updateCount' = updateCount + 1)
         ]_vars

C6_Witness ==
    pc = "update" /\ badStreak >= 2 /\ result = "Ok"

\* C7: every editor spawned after the first follows an error prompt that
\* was shown after the editor before it had exited with a failure as the
\* last outcome; and when reading the prompt fails edit_card ends with no
\* further spawn and no further Card::update call.
C7_PromptBeforeRespawn ==
    /\ spawns <= prompts + 1
    /\ pc \in {"match", "prompt"} => ~editorRunning
    /\ pc = "prompt" => (result = "Err" /\ prompts = spawns)
    /\ (pc = "spawn" /\ spawns >= 1) => prompts = spawns
    /\ fatal = "prompt" => (pc = "error" /\ Counts = afterFatal)

C7_Witness ==
    spawns = 2 /\ prompts = 1 /\ editorRunning /\ ~lastCall.ok /\ updateCount = 1

\* C8: when edit_card has ended, normally or with an error, the scratch
\* file is gone and no editor it spawned is running.
C8_ResourcesReleased ==
    pc \in {"done", "error"} => (~fileExists /\ ~editorRunning)

\* C9: a failure to reopen or read the scratch file, or to spawn the
\* editor, ends edit_card at once: no Card::update call, no prompt and no
\* spawn follows it.
C9_IoFailureIsFatal ==
    fatal \in {"reopen", "spawn"} => (pc = "error" /\ Counts = afterFatal)

C9_Witness ==
    fatal = "reopen" /\ editorRunning /\ updateCount > 0 /\ file # buf

\* C10: the URL get_trello_url returns is host+path, and its query pairs
\* are key, token and then the caller's pairs in their order; for the
\* arguments of the documentation test its text is the documented one.
C10_AuthParamsFirst ==
    (url.state = "returned" /\ url.out # UrlError) =>
        /\ url.out.base = url.self.host \o url.path
        /\ QueryPairs(url.out.query)
             = <<<<"key", url.self.key>>, <<"token", url.self.token>>>> \o url.params
        /\ url.params = <<>> => Len(QueryPairs(url.out.query)) = 2
        /\ (url.self.key = "some-key" /\ url.path = "/1/me/boards/" /\ url.params = <<>>) =>
              to_string(url.out)
                = "https://api.trello.com/1/me/boards/?key=some-key&token=some-token"
        /\ (url.self.key = "some-key" /\ url.path = "/1/boards/some-id/"
                /\ url.params = << <<"lists", "open">> >>) =>
              to_string(url.out)
                = "https://api.trello.com/1/boards/some-id/?key=some-key&token=some-token&lists=open"

C10_Witness ==
    /\ url.state = "returned"
    /\ url.out # UrlError
    /\ Len(url.params) = 2
    /\ url.self.key = "k&y"
    /\ url.params[2][2] = "a b"

\* C11: a poll that parses makes a Card::update call if and only if no
\* call was made yet in the editor session, or the last call failed, or the
\* parsed name or the parsed description differs from the in-memory copy.
C11_TriggerIffNoneErrOrDiffers ==
    [][(LeavesParse /\ Parsed(buf)) =>
          /\ pc' \in {"update", "wait"}
          /\ (pc' = "update") <=>
                \/ result = "None"
                \/ result = "Err"
                \/ new_card.name # Contents(buf).name
                \/ new_card.desc # Contents(buf).desc
          /\ (pc' = "update") <=> triggered'
      ]_vars

C11_Witness ==
    /\ pc = "update"
    /\ result = "Ok"
    /\ badStreak = 0
    /\ new_card.name = lastCall.name
    /\ new_card.desc # lastCall.desc

\* C12: the in-memory name and description change only in a poll that
\* parsed and triggered an update; a poll that does not parse, or parses
\* without triggering, leaves them and the recorded outcome as they were
\* and makes no Card::update call.
C12_CopyChangesOnlyOnTrigger ==
    [][ /\ (new_card' # new_card) =>
              (LeavesParse /\ buf.ok /\ pc' = "update" /\ triggered')
        /\ (LeavesParse /\ ~buf.ok) =>
              (pc' # "update" /\ ~triggered'
                 /\ UNCHANGED <<new_card, result, updateCount, lastCall>>)
        /\ (LeavesParse /\ pc' # "update") =>
              (~triggered' /\ UNCHANGED <<new_card, result, updateCount, lastCall>>)
      ]_vars

C12_Witness ==
    /\ pc = "read"
    /\ badStreak >= 1
    /\ ~buf.ok
    /\ result = "Ok"
    /\ new_card # Card0

\* C13: a triggered update first copies the fields parsed in that poll into
\* the in-memory copy and then calls Card::update with them; after the call
\* the copy still holds them, whether the call succeeded or failed, and the
\* recorded outcome is the outcome of that call.
C13_CallCarriesParsedFields ==
    /\ pc = "update" =>
          (triggered /\ Parsed(buf) /\ SameAsCard(buf))
    /\ (pc = "wait" /\ triggered) =>
          /\ Parsed(buf) /\ SameAsCard(buf)
          /\ lastCall.name = Contents(buf).name
          /\ lastCall.desc = Contents(buf).desc
          /\ result = IF lastCall.ok THEN "Ok" ELSE "Err"

C13_Witness ==
    /\ pc = "wait"
    /\ triggered
    /\ ~lastCall.ok
    /\ result = "Err"
    /\ new_card = [name |-> "b", desc |-> "y"]

\* C14: the states of edit_card and the steps between them.
State ==
    CASE pc = "idle" -> "Idle"
      [] pc = "spawn" -> "EditorOpen"
      [] pc \in {"read", "parse", "wait"} -> "Polling"
      [] pc = "update" -> "Updating"
      [] pc = "match" -> "EditorClosed"
      [] pc = "prompt" -> "AwaitingRetryAck"
      [] pc = "done" -> "Done"
      [] pc = "error" -> "Failed"

Transitions ==
    {<<"Idle", "EditorOpen">>, <<"EditorOpen", "Polling">>,
     <<"Polling", "Updating">>, <<"Updating", "Polling">>,
     <<"Polling", "EditorClosed">>, <<"EditorClosed", "Done">>,
     <<"EditorClosed", "AwaitingRetryAck">>, <<"AwaitingRetryAck", "EditorOpen">>}

\* the places where a `?` returns from edit_card
Aborts ==
    {<<"Idle", "Failed">>, <<"EditorOpen", "Failed">>, <<"Polling", "Failed">>,
     <<"AwaitingRetryAck", "Failed">>}

\* C14: edit_card moves along Idle -> EditorOpen -> {Polling <-> Updating}
\* -> EditorClosed -> {Done | AwaitingRetryAck -> EditorOpen} only (an I/O
\* error leaves the machine); it is Done only with the editor observed
\* exited and a last outcome that is not a failure.
C14_StateMachine ==
    /\ [][State' # State => <<State, State'>> \in Transitions \cup Aborts]_vars
    /\ [](pc = "done" => (~editorRunning /\ result \in {"None", "Ok"}))
    /\ [][(pc' = "done" /\ pc # "done") => (pc = "match" /\ result # "Err")]_vars

C14_Witness ==
    pc = "done" /\ spawns = 2 /\ prompts = 1 /\ result = "Ok"

\* C15: the error prompt is shown only with the editor exited and the last
\* Card::update call of that editor session failed; a failed call followed
\* by a successful one in the same editor session is not shown.
C15_ErrorShownOnlyForLastFailure ==
    /\ [](pc = "prompt" => (~editorRunning /\ ~lastCall.ok /\ updateCount > 0))
    /\ [][ /\ (prompts' # prompts) =>
                 /\ pc = "match" /\ pc' = "prompt"
                 /\ prompts' = prompts + 1
                 /\ ~editorRunning
                 /\ result = "Err"
                 /\ ~lastCall.ok
           /\ (pc = "match" /\ pc' # pc /\ lastCall.ok) =>
                 (pc' = "done" /\ prompts' = prompts)
         ]_vars

\* two calls on a never modified file: the first failed, the second did not
C15_Witness ==
    /\ pc = "done"
    /\ ~modified
    /\ spawns = 1
    /\ updateCount = 2
    /\ prompts = 0

\* C16: when the poll loop is left through the exit check a Card::update
\* was attempted in that editor session: the outcome is not None there, the
\* None arm of the outer match is never taken and edit_card is Done only
\* after a successful call.
C16_OutcomeNeverNoneAtExit ==
    /\ pc \in {"wait", "match", "prompt"} => (result # "None" /\ updateCount >= 1)
    /\ pc = "done" => (result = "Ok" /\ lastCall.ok /\ updateCount >= 1)

C16_Witness ==
    pc = "match" /\ result = "Ok" /\ lateReads = 1 /\ updateCount = 1 /\ modified

\* C17: every spawn sets the outcome back to None and keeps the in-memory
\* copy; the outcome changes at a spawn or a call only, so the first poll
\* of an editor session that parses finds None and triggers a call, also
\* for the text of the failed submission.
C17_OutcomeResetAtSpawn ==
    [][ /\ (pc = "spawn" /\ pc' = "read") =>
              (result' = "None" /\ new_card' = new_card)
        /\ (result' # result) => pc \in {"spawn", "update"}
        /\ (LeavesParse /\ Parsed(buf) /\ result = "None") =>
              /\ pc' = "update"
              /\ new_card'.name = Contents(buf).name
              /\ new_card'.desc = Contents(buf).desc
      ]_vars

C17_Witness ==
    /\ spawns = 2
    /\ pc = "update"
    /\ result = "None"
    /\ ~lastCall.ok
    /\ new_card.name = lastCall.name
    /\ new_card.desc = lastCall.desc

\* C18: an editor is spawned only when no editor spawned before is running:
\* the one before was seen terminated by the exit check.
C18_OneEditorAtATime ==
    /\ [](pc \in {"match", "prompt", "spawn", "done"} => ~editorRunning)
    /\ [][(spawns' # spawns) =>
             (pc = "spawn" /\ ~editorRunning /\ editorRunning' /\ spawns' = spawns + 1)
         ]_vars

C18_Witness ==
    spawns = 2 /\ editorRunning /\ polled /\ prompts = 1

====
